---- MODULE Spec2Model ----
(***************************************************************************)
(* A model of the Wordle solver of src/main.rs: the word encoding, the     *)
(* two-pass match-pattern computation, the pattern distribution and its    *)
(* entropy, and the WordleSolver session (intialise, reset, update_prior,  *)
(* step, guess).                                                            *)
(*                                                                         *)
(* Indices are the program's own 0-based indices; a Vec is a sequence and  *)
(* At(v, i) reads element i of it.  An f64 that the program computes is    *)
(* kept as an exact fraction [num, den]; den = 0 stands for NaN (0.0/0.0). *)
(***************************************************************************)
EXTENDS Integers, Sequences, FiniteSets, TLC

VARIABLES
    \* ---- WordleSolver fields (src/main.rs:106-122) ----
    dictionary,
    policy,
    expected_moves_curve,
    previous_guesses,
    prior,
    current_possibilities,
    current_guess,
    current_guess_entropy,
    current_guess_match_result,
    current_guess_match_pattern_pd,
    current_expected_score,
    \* ---- the caller of the session ----
    rounds,        \* <<guess, observed pattern>> of every guess() applied since reset
    truthful_for,  \* the secret indices s for which every observed pattern since reset
                   \* was match_result(guess, dictionary[s])
    last_op,       \* the last call made on the session
    fresh,         \* the proposal was computed by step() and not yet consumed by guess()
    stale_used,    \* some guess() since reset ran on a proposal that was not fresh
    panicked,      \* the process aborted with a panic
    undone,        \* the guess() calls that the last call discarded, when it was reset()
    \* ---- one evaluation of match_result on a pair of words ----
    mr_self,
    mr_other,
    mr_result,
    \* ---- interactive_play (src/main.rs:437-544) ----
    play_pc,               \* where the function stands
    initial_possibilities, \* its local of line 481
    reported,              \* what it wrote to stderr, if anything
    announced,             \* the word of its "Solution Found" line, if printed
    exit_code,             \* the exit status of the process, once it has ended
    feedback_line,         \* the last line it read from stdin
    \* ---- spawn_workers (src/main.rs:408-435) ----
    batch_pc,      \* where the parent process stands
    n_workers,     \* its local n
    max_secrets,   \* the number of secrets the workers of the batch go through
    children,      \* the worker processes spawned so far, in spawn order
    waited,        \* how many of them the parent has waited for
    batch_exit,    \* the exit status of the parent, once it has ended
    \* ---- run_generic_worker (src/main.rs:592-640) ----
    worker_pc,     \* where the worker stands
    worker_id,
    total_workers,
    pending,       \* the secret indices the loop of line 615 has still to yield
    secret_idx,
    entropies,
    guesses,
    shard,         \* the rows flushed to the worker's file
    \* ---- the expected-moves curve (src/main.rs:348-406, 438-463) ----
    training,      \* what the glob ./train/training_data*.csv matches
    curve_pc,
    selected,      \* the policy and the curve chosen from it
    query,         \* the entropy interp_expected_moves was last called with
    interpolated,  \* what that call returned
    \* ---- loading a word list (src/main.rs:59-73, 280-290) ----
    enc_lines,     \* the lines of the file
    enc_pc

solver_vars ==
    << dictionary, policy, expected_moves_curve, previous_guesses, prior,
       current_possibilities, current_guess, current_guess_entropy,
       current_guess_match_result, current_guess_match_pattern_pd,
       current_expected_score >>

caller_vars == << rounds, truthful_for, last_op, fresh, stale_used, panicked, undone >>

match_vars == << mr_self, mr_other, mr_result >>

play_vars ==
    << play_pc, initial_possibilities, reported, announced, exit_code, feedback_line >>

batch_vars == << batch_pc, n_workers, max_secrets, children, waited, batch_exit >>

worker_vars ==
    << worker_pc, worker_id, total_workers, pending, secret_idx, entropies, guesses, shard >>

curve_vars == << training, curve_pc, selected, query, interpolated >>

encode_vars == << enc_lines, enc_pc >>

harness_vars == << batch_vars, worker_vars, curve_vars, encode_vars >>

vars == << solver_vars, caller_vars, match_vars, play_vars, harness_vars >>

----------------------------------------------------------------------------
(* Vec helpers *)

At(v, i) == v[i + 1]

Range(v) == { v[k] : k \in 1..Len(v) }

Contains(v, x) == \E k \in 1..Len(v) : v[k] = x

(* A fixed-size numeric array ([u8; 26], [f64; 243]) is kept as the function  *)
(* from the 0-based indices of its non-zero entries to their values.         *)
ZeroArray == << >>

Get(array, i) == IF i \in DOMAIN array THEN array[i] ELSE 0

Put(array, i, v) ==
    LET dom == IF v = 0 THEN DOMAIN array \ {i} ELSE DOMAIN array \cup {i}
    IN  [ j \in dom |-> IF j = i THEN v ELSE array[j] ]

RECURSIVE SeqsUpTo(_, _)
SeqsUpTo(S, n) ==
    IF n = 0 THEN { <<>> }
    ELSE LET shorter == SeqsUpTo(S, n - 1)
         IN  shorter \cup { Append(q, x) : q \in { r \in shorter : Len(r) = n - 1 }, x \in S }

----------------------------------------------------------------------------
(* MatchKind, WordEncoding (src/main.rs:21-98) *)

NoMatch == "NoMatch"
Partial == "Partial"
Match == "Match"

MatchKind == { NoMatch, Partial, Match }

WordLen == 5

AlphabetSize == 26

UpperCase ==
    << "A", "B", "C", "D", "E", "F", "G", "H", "I", "J", "K", "L", "M",
       "N", "O", "P", "Q", "R", "S", "T", "U", "V", "W", "X", "Y", "Z" >>

LowerCase ==
    << "a", "b", "c", "d", "e", "f", "g", "h", "i", "j", "k", "l", "m",
       "n", "o", "p", "q", "r", "s", "t", "u", "v", "w", "x", "y", "z" >>

Letters == Range(UpperCase) \cup Range(LowerCase)

UpperOf ==
    [ c \in Letters |->
        IF \E k \in 1..AlphabetSize : LowerCase[k] = c
        THEN UpperCase[CHOOSE k \in 1..AlphabetSize : LowerCase[k] = c]
        ELSE c ]

IndexOf ==
    [ c \in Letters |-> (CHOOSE k \in 1..AlphabetSize : UpperCase[k] = UpperOf[c]) - 1 ]

\* char::to_ascii_uppercase on a letter
to_ascii_uppercase(c) == UpperOf[c]

\* WordEncoding::idx : A -> 0, B -> 1, ... Z -> 25
idx(c) == IndexOf[c]

\* WordEncoding::from_string panics on a sixth character (positions[5], line
\* 65) and on a character that is no ASCII letter (its idx is out of the
\* range of frequencies, line 66)
from_string_panics(word) ==
    \/ Len(word) > WordLen
    \/ \E i \in 1..Len(word) : word[i] \notin Letters

\* WordEncoding::from_string when it returns: the characters of the word are
\* written over ['A'; 5] and counted
RECURSIVE from_string_loop(_, _, _)
from_string_loop(word, i, enc) ==
    IF i > Len(word) THEN enc
    ELSE LET cu == to_ascii_uppercase(word[i])
         IN  from_string_loop(word, i + 1,
                 [ positions   |-> [enc.positions EXCEPT ![i] = cu],
                   frequencies |-> Put(enc.frequencies, idx(cu), Get(enc.frequencies, idx(cu)) + 1) ])

from_string(word) ==
    from_string_loop(word, 1,
        [ positions   |-> [i \in 1..WordLen |-> "A"],
          frequencies |-> ZeroArray ])

\* WordEncoding::to_string
to_string(enc) == enc.positions

\* exact_pass with a slip: an exact match leaves the secret's count untouched
RECURSIVE exact_pass_no_consume(_, _, _, _)
exact_pass_no_consume(self, other, i, acc) ==
    IF i > WordLen THEN acc
    ELSE IF self.positions[i] = other.positions[i]
         THEN exact_pass_no_consume(self, other, i + 1,
                  [ result    |-> [acc.result EXCEPT ![i] = Match],
                    remaining |-> acc.remaining ])
         ELSE exact_pass_no_consume(self, other, i + 1, acc)

\* first loop of match_result: exact matches consume the secret's counts
RECURSIVE exact_pass(_, _, _, _)
exact_pass(self, other, i, acc) ==
    IF i > WordLen THEN acc
    ELSE IF self.positions[i] = other.positions[i]
         THEN exact_pass(self, other, i + 1,
                  [ result    |-> [acc.result EXCEPT ![i] = Match],
                    remaining |-> Put(acc.remaining, idx(self.positions[i]),
                                      Get(acc.remaining, idx(self.positions[i])) - 1) ])
         ELSE exact_pass(self, other, i + 1, acc)

\* partial_pass with a slip: positions already marked Match are looked at again
RECURSIVE partial_pass_unguarded(_, _, _)
partial_pass_unguarded(self, i, acc) ==
    IF i > WordLen THEN acc
    ELSE IF Get(acc.remaining, idx(self.positions[i])) > 0
         THEN partial_pass_unguarded(self, i + 1,
                  [ result    |-> [acc.result EXCEPT ![i] = Partial],
                    remaining |-> Put(acc.remaining, idx(self.positions[i]),
                                      Get(acc.remaining, idx(self.positions[i])) - 1) ])
         ELSE partial_pass_unguarded(self, i + 1, acc)

\* second loop of match_result: the positions still NoMatch take what is left
RECURSIVE partial_pass(_, _, _)
partial_pass(self, i, acc) ==
    IF i > WordLen THEN acc
    ELSE IF acc.result[i] = NoMatch /\ Get(acc.remaining, idx(self.positions[i])) > 0
         THEN partial_pass(self, i + 1,
                  [ result    |-> [acc.result EXCEPT ![i] = Partial],
                    remaining |-> Put(acc.remaining, idx(self.positions[i]),
                                      Get(acc.remaining, idx(self.positions[i])) - 1) ])
         ELSE partial_pass(self, i + 1, acc)

\* match_result with a slip: the working table is copied from the guess
match_result_own_counts(self, other) ==
    partial_pass(self, 1,
        exact_pass(self, other, 1,
            [ result    |-> [i \in 1..WordLen |-> NoMatch],
              remaining |-> self.frequencies ])).result

\* WordEncoding::match_result(&self, other)
match_result(self, other) ==
    partial_pass(self, 1,
        exact_pass(self, other, 1,
            [ result    |-> [i \in 1..WordLen |-> NoMatch],
              remaining |-> other.frequencies ])).result

----------------------------------------------------------------------------
(* f64 values as exact fractions.  [num |-> 0, den |-> 0] is NaN and       *)
(* [num |-> 1, den |-> 0] is +infinity; every other value has den > 0 and  *)
(* is kept in lowest terms.                                                 *)

RECURSIVE GCD(_, _)
GCD(a, b) == IF b = 0 THEN a ELSE GCD(b, a % b)

Abs(x) == IF x < 0 THEN -x ELSE x

NaN == [num |-> 0, den |-> 0]

INFINITY == [num |-> 1, den |-> 0]

IsNaN(x) == x.den = 0 /\ x.num = 0

\* n / d for integers n and d >= 0, as the f64 division yields it
Frac(n, d) ==
    IF d = 0 THEN (IF n = 0 THEN NaN ELSE INFINITY)
    ELSE LET g == GCD(Abs(n), d) IN [num |-> n \div g, den |-> d \div g]

Zero == Frac(0, 1)

One == Frac(1, 1)

FAdd(a, b) ==
    IF IsNaN(a) \/ IsNaN(b) THEN NaN
    ELSE IF a.den = 0 \/ b.den = 0 THEN INFINITY
    ELSE Frac(a.num * b.den + b.num * a.den, a.den * b.den)

FSub(a, b) ==
    IF IsNaN(a) \/ IsNaN(b) THEN NaN
    ELSE IF a.den = 0 THEN (IF b.den = 0 THEN NaN ELSE INFINITY)
    ELSE Frac(a.num * b.den - b.num * a.den, a.den * b.den)

FMul(a, b) ==
    IF IsNaN(a) \/ IsNaN(b) THEN NaN
    ELSE IF a.den = 0 \/ b.den = 0
         THEN (IF a.num = 0 \/ b.num = 0 THEN NaN ELSE INFINITY)
    ELSE Frac(a.num * b.num, a.den * b.den)

\* a / b
FDiv(a, b) ==
    IF IsNaN(a) \/ IsNaN(b) THEN NaN
    ELSE IF b.den = 0 THEN (IF a.den = 0 THEN NaN ELSE Zero)
    ELSE IF a.den = 0 THEN INFINITY
    ELSE IF b.num < 0 THEN Frac(-(a.num * b.den), a.den * (-b.num))
    ELSE Frac(a.num * b.den, a.den * b.num)

\* a <= b; false as soon as one side is NaN
FLessEq(a, b) ==
    /\ ~IsNaN(a)
    /\ ~IsNaN(b)
    /\ IF b.den = 0 THEN TRUE
       ELSE IF a.den = 0 THEN FALSE
       ELSE a.num * b.den <= b.num * a.den

\* a < b; false as soon as one side is NaN
FLess(a, b) ==
    /\ ~IsNaN(a)
    /\ ~IsNaN(b)
    /\ IF a.den = 0 THEN FALSE
       ELSE IF b.den = 0 THEN TRUE
       ELSE a.num * b.den < b.num * a.den

RECURSIVE Pow(_, _)
Pow(b, e) == IF e = 0 THEN 1 ELSE b * Pow(b, e - 1)

LCM(a, b) == (a * b) \div GCD(a, b)

(* An entropy is a logarithm: [arg, root] stands for log2(arg) / root with  *)
(* arg a fraction >= 1 and root >= 1; 0.0 is log2(1) / 1.                   *)
LogZero == [arg |-> One, root |-> 1]

\* LogGreater with a slip: the comparison is turned around
LogGreater_reversed(a, b) ==
    IF a.root = b.root THEN FLess(a.arg, b.arg)
    ELSE FLess( Frac(Pow(a.arg.num, b.root), Pow(a.arg.den, b.root)),
                Frac(Pow(b.arg.num, a.root), Pow(b.arg.den, a.root)) )

\* a > b for two such logarithms
LogGreater(a, b) ==
    IF a.root = b.root THEN FLess(b.arg, a.arg)
    ELSE FLess( Frac(Pow(b.arg.num, a.root), Pow(b.arg.den, a.root)),
                Frac(Pow(a.arg.num, b.root), Pow(a.arg.den, b.root)) )

----------------------------------------------------------------------------
(* Bucket and the expected-moves curve (src/main.rs:342-406) *)

\* lines 399-400: the value on the segment from bucket l to bucket r
interp_segment(l, r, entropy) ==
    LET t == FDiv(FSub(entropy, l.centre), FSub(r.centre, l.centre))
    IN  FAdd(l.avg_moves, FMul(t, FSub(r.avg_moves, l.avg_moves)))

\* lines 396-398: the windows(2) pairs that hold `entropy`, by the 1-based
\* position of their left bucket
interp_windows(buckets, entropy) ==
    { k \in 1..(Len(buckets) - 1) :
        FLessEq(buckets[k].centre, entropy) /\ FLessEq(entropy, buckets[k + 1].centre) }

\* line 403: on a curve of two or more buckets neither clamp applies and no
\* window holds `entropy`
interp_unreachable(buckets, entropy) ==
    /\ Len(buckets) >= 2
    /\ ~FLessEq(entropy, buckets[1].centre)
    /\ ~FLessEq(buckets[Len(buckets)].centre, entropy)
    /\ interp_windows(buckets, entropy) = {}

\* interp_expected_moves with a slip: past the last centre the last segment is
\* carried on instead of the last value
interp_expected_moves_unclamped(buckets, entropy) ==
    CASE Len(buckets) = 0 -> NaN
      [] Len(buckets) = 1 -> buckets[1].avg_moves
      [] Len(buckets) >= 2 ->
             IF FLessEq(entropy, buckets[1].centre) THEN buckets[1].avg_moves
             ELSE IF interp_windows(buckets, entropy) # {}
             THEN LET k == CHOOSE x \in interp_windows(buckets, entropy) :
                               \A y \in interp_windows(buckets, entropy) : x <= y
                  IN  interp_segment(buckets[k], buckets[k + 1], entropy)
             ELSE interp_segment(buckets[Len(buckets) - 1], buckets[Len(buckets)], entropy)

\* interp_expected_moves.  On a curve of at most one bucket (the slice patterns
\* [] and [only]) `entropy` is not looked at; on a longer curve it is an f64
\* kept as a fraction, and the call is defined when it does not run into
\* unreachable!()
interp_expected_moves(buckets, entropy) ==
    CASE Len(buckets) = 0 -> NaN
      [] Len(buckets) = 1 -> buckets[1].avg_moves
      [] Len(buckets) >= 2 /\ ~interp_unreachable(buckets, entropy) ->
             IF FLessEq(entropy, buckets[1].centre) THEN buckets[1].avg_moves
             ELSE IF FLessEq(buckets[Len(buckets)].centre, entropy)
             THEN buckets[Len(buckets)].avg_moves
             ELSE LET k == CHOOSE x \in interp_windows(buckets, entropy) :
                               \A y \in interp_windows(buckets, entropy) : x <= y
                  IN  interp_segment(buckets[k], buckets[k + 1], entropy)

----------------------------------------------------------------------------
(* WordleSolver (src/main.rs:106-340) *)

MaximizeEntropy == "MaximizeEntropy"
MinimizeScore == "MinimizeScore"

NumPatterns == 243

\* Option<T>: None is the empty sequence, Some(x) is <<x>>
None == << >>
Some(x) == << x >>
IsSome(o) == Len(o) = 1
Unwrap(o) == o[1]

\* compute_word_encodings
compute_word_encodings(words) == [ k \in 1..Len(words) |-> from_string(words[k]) ]

SigmoidSaturation == 765

\* parametric_sigmoid(x, 1500.0, 0.05) = 1.0 / (1.0 + exp(0.05 * (x - 1500.0))).
\* For x <= 765 the exponential is below 2^-53, the sum rounds to 1.0 and the
\* f64 quotient is exactly 1.0; the model holds no dictionary beyond that rank.
parametric_sigmoid(x) ==
    CASE x <= SigmoidSaturation -> 1

RECURSIVE SumWeights(_, _)
SumWeights(possibilities, k) ==
    IF k > Len(possibilities) THEN 0
    ELSE parametric_sigmoid(possibilities[k]) + SumWeights(possibilities, k + 1)

\* update_prior: the new value of self.prior
update_prior(dict, possibilities) ==
    LET weights    == [ i \in 0..(Len(dict) - 1) |->
                          IF Contains(possibilities, i) THEN parametric_sigmoid(i) ELSE 0 ]
        sum_weight == SumWeights(possibilities, 1)
    IN  [ k \in 1..Len(dict) |-> Frac(weights[k - 1], sum_weight) ]

\* the bucket of a match result: sum of kind * 3^i, NoMatch = 0, Partial = 1, Match = 2
KindDigit(kind) == CASE kind = NoMatch -> 0 [] kind = Partial -> 1 [] kind = Match -> 2

RECURSIVE PatternIndexFrom(_, _)
PatternIndexFrom(mr, i) ==
    IF i > WordLen THEN 0
    ELSE KindDigit(mr[i]) * Pow(3, i - 1) + PatternIndexFrom(mr, i + 1)

PatternIndex(mr) == PatternIndexFrom(mr, 1)

(* A [f64; 243] distribution is kept as numerators over one denominator:    *)
(* bucket b holds Get(nums, b) / den, and den = 0 makes every bucket NaN.   *)

RECURSIVE LikelihoodDen(_, _)
LikelihoodDen(match_results, k) ==
    IF k > Len(match_results) THEN 1
    ELSE LCM(match_results[k][2].den, LikelihoodDen(match_results, k + 1))

\* lines 297-311: every match result adds its likelihood to its bucket and to
\* the sum; the likelihoods are counted in units of 1 / unit
RECURSIVE pd_accumulate(_, _, _, _)
pd_accumulate(match_results, unit, k, acc) ==
    IF k > Len(match_results) THEN acc
    ELSE LET index      == PatternIndex(match_results[k][1])
             likelihood == match_results[k][2].num * (unit \div match_results[k][2].den)
         IN  pd_accumulate(match_results, unit, k + 1,
                 [ nums |-> Put(acc.nums, index, Get(acc.nums, index) + likelihood),
                   sum  |-> acc.sum + likelihood ])

\* compute_match_pattern_pd: accumulate, then divide every bucket by the sum
\* (lines 314-316); an empty or zero-weight input divides 0.0 by 0.0
compute_match_pattern_pd(match_results) ==
    LET unit == LikelihoodDen(match_results, 1)
        acc  == pd_accumulate(match_results, unit, 1,
                    [ nums |-> ZeroArray, sum |-> 0 ])
    IN  IF unit = 0 THEN [ nums |-> ZeroArray, den |-> 0 ]
        ELSE [ nums |-> acc.nums, den |-> acc.sum ]

\* the probability of bucket b
Probability(pd, b) == Frac(Get(pd.nums, b), pd.den)

\* the buckets compute_entropy adds a term for (line 324: p > 0.0)
PositiveBuckets(pd) ==
    { b \in 0..(NumPatterns - 1) : pd.den > 0 /\ Get(pd.nums, b) > 0 }

\* compute_entropy: the sum of -p * log2(p) over the buckets with p > 0.0, in
\* ascending bucket order; with p = num / den it is
\* log2( prod (den / num)^num ) / den
RECURSIVE entropy_sum(_, _, _)
entropy_sum(pd, buckets, acc) ==
    IF buckets = {} THEN acc
    ELSE LET b == CHOOSE x \in buckets : \A y \in buckets : x <= y
             c == Get(pd.nums, b)
         IN  entropy_sum(pd, buckets \ {b},
                 [ arg  |-> FMul(acc.arg, Frac(Pow(pd.den, c), Pow(c, c))),
                   root |-> acc.root ])

compute_entropy(pd) ==
    LET h == entropy_sum(pd, PositiveBuckets(pd), [arg |-> One, root |-> pd.den])
    IN  IF h.arg = One THEN LogZero ELSE h

\* compute_expected_score: the curve is non-empty whenever the policy is MinimizeScore
\* (interactive_play, src/main.rs:448-451), so the fallback branch is not taken
compute_expected_score(curve, entropy) ==
    CASE Len(curve) > 0 -> interp_expected_moves(curve, entropy)

----------------------------------------------------------------------------
(* Bounds and inputs of the model *)

\* longest dictionary loaded
MaxDictLen == 3

\* most guess() calls applied between two resets
MaxGuesses == 3

\* the lines a dictionary file is made of
WordPool ==
    { << "S", "P", "E", "E", "D" >>,
      << "E", "R", "A", "S", "E" >>,
      << "C", "R", "E", "E", "D" >>,
      << "s", "t", "e", "e", "d" >> }

\* the word lists open_dictionary can return
Dictionaries == SeqsUpTo(WordPool, MaxDictLen) \ { << >> }

\* the (policy, expected_moves_curve) pairs main() creates a session with:
\* run_generic_worker (607-611) and interactive_play (441-472)
SessionConfigs ==
    { [ policy |-> MaximizeEntropy, curve |-> << >> ],
      [ policy |-> MinimizeScore,
        curve  |-> << [ centre |-> Frac(1, 10), avg_moves |-> Frac(3, 1) ] >> ] }

AllNoMatch == [ i \in 1..WordLen |-> NoMatch ]

\* the patterns a caller answers a proposed guess with: the pattern of the guess
\* against each dictionary word, and one that no dictionary word produces
FeedbackInputs(guess, dict) ==
    { match_result(guess, At(dict, s)) : s \in 0..(Len(dict) - 1) } \cup { AllNoMatch }

----------------------------------------------------------------------------
(* WordleSolver::step (src/main.rs:229-278) *)

\* lines 243-248: the match result of `guess` against every remaining candidate,
\* paired with the candidate's prior
match_results_of(guess, dict, pri, possibilities) ==
    [ k \in 1..Len(possibilities) |->
        << match_result(guess, At(dict, possibilities[k])), At(pri, possibilities[k]) >> ]

\* lines 243-276 for dictionary index i: the word is scored and kept when it
\* beats the proposal held in acc (the five fields that step() rewrites)
step_consider(i, acc) ==
    LET guess            == At(dictionary, i)
        match_results    == match_results_of(guess, dictionary, prior, current_possibilities)
        match_pattern_pd == compute_match_pattern_pd(match_results)
        entropy          == compute_entropy(match_pattern_pd)
    IN  IF policy = MaximizeEntropy
        THEN IF LogGreater(entropy, acc.current_guess_entropy)
             THEN [ acc EXCEPT
                      !.current_guess = Some(guess),
                      !.current_guess_entropy = entropy,
                      !.current_guess_match_result = Some(match_results),
                      !.current_guess_match_pattern_pd = Some(match_pattern_pd) ]
             ELSE acc
        ELSE IF policy = MinimizeScore
        THEN LET expected_score ==
                     FAdd(One, FMul(FSub(One, At(prior, i)),
                                    compute_expected_score(expected_moves_curve, entropy)))
             IN  IF FLess(expected_score, acc.current_expected_score)
                 THEN [ acc EXCEPT
                          !.current_guess = Some(guess),
                          !.current_guess_entropy = entropy,
                          !.current_guess_match_result = Some(match_results),
                          !.current_guess_match_pattern_pd = Some(match_pattern_pd),
                          !.current_expected_score = expected_score ]
                 ELSE acc
        ELSE acc

\* step_iteration with a slip: words already guessed are scored again
step_iteration_repeats(i, acc) == step_consider(i, acc)

\* one iteration of the loop of lines 237-277 on dictionary index i
step_iteration(i, acc) ==
    IF Contains(previous_guesses, At(dictionary, i)) THEN acc
    ELSE step_consider(i, acc)

RECURSIVE step_loop(_, _)
step_loop(i, acc) ==
    IF i >= Len(dictionary) THEN acc
    ELSE step_loop(i + 1, step_iteration(i, acc))

\* lines 230-234: the derived fields as step() and reset() clear them
ClearedProposal ==
    [ current_guess                  |-> None,
      current_guess_entropy          |-> LogZero,
      current_guess_match_result     |-> None,
      current_guess_match_pattern_pd |-> None,
      current_expected_score         |-> INFINITY ]

step_result == step_loop(0, ClearedProposal)

SolverStep ==
    LET r == step_result
    IN  /\ current_guess' = r.current_guess
        /\ current_guess_entropy' = r.current_guess_entropy
        /\ current_guess_match_result' = r.current_guess_match_result
        /\ current_guess_match_pattern_pd' = r.current_guess_match_pattern_pd
        /\ current_expected_score' = r.current_expected_score
        /\ UNCHANGED << dictionary, policy, expected_moves_curve, previous_guesses,
                        prior, current_possibilities >>

----------------------------------------------------------------------------
(* WordleSolver::guess (src/main.rs:201-227) *)

\* lines 210-218: the positions of current_guess_match_result whose pattern
\* equals the observed one, in ascending order
RECURSIVE keep_indices_from(_, _, _)
keep_indices_from(results, actual_match, k) ==
    IF k > Len(results) THEN << >>
    ELSE IF results[k][1] = actual_match
         THEN << k - 1 >> \o keep_indices_from(results, actual_match, k + 1)
         ELSE keep_indices_from(results, actual_match, k + 1)

\* keep_indices with a slip: the positions are counted from 1
keep_indices_one_based(results, actual_match) ==
    [ k \in 1..Len(keep_indices_from(results, actual_match, 1)) |->
        keep_indices_from(results, actual_match, 1)[k] + 1 ]

keep_indices(results, actual_match) == keep_indices_from(results, actual_match, 1)

\* lines 220-223 index self.current_possibilities with every kept position;
\* an index past its end panics
KeepInBounds(keep, possibilities) ==
    \A k \in 1..Len(keep) : keep[k] < Len(possibilities)

\* filtered_possibilities with a slip: the kept positions are taken for
\* dictionary indices
filtered_possibilities_direct(keep, possibilities) == keep

filtered_possibilities(keep, possibilities) ==
    [ k \in 1..Len(keep) |-> At(possibilities, keep[k]) ]

\* (0..dictionary.len()).collect()
AllIndices(dict) == [ k \in 1..Len(dict) |-> k - 1 ]

\* SolverGuess with a slip: when nothing is kept, every index is a candidate again
SolverGuess_refill(actual_match, aborts) ==
    IF IsSome(current_guess)
    THEN LET keep == keep_indices(Unwrap(current_guess_match_result), actual_match)
         IN  /\ previous_guesses' = Append(previous_guesses, Unwrap(current_guess))
             /\ IF KeepInBounds(keep, current_possibilities)
                THEN /\ current_possibilities' =
                            IF keep = << >> THEN AllIndices(dictionary)
                            ELSE filtered_possibilities(keep, current_possibilities)
                     /\ prior' = update_prior(dictionary, current_possibilities')
                     /\ aborts = FALSE
                ELSE /\ UNCHANGED << current_possibilities, prior >>
                     /\ aborts = TRUE
             /\ UNCHANGED << dictionary, policy, expected_moves_curve, current_guess,
                             current_guess_entropy, current_guess_match_result,
                             current_guess_match_pattern_pd, current_expected_score >>
    ELSE /\ aborts = FALSE
         /\ UNCHANGED solver_vars

\* SolverGuess with a slip: the filtering runs outside the test for a
\* proposal, and with no match results to go through it keeps no candidate
SolverGuess_filters_unproposed(actual_match, aborts) ==
    IF IsSome(current_guess)
    THEN LET keep == keep_indices(Unwrap(current_guess_match_result), actual_match)
         IN  /\ previous_guesses' = Append(previous_guesses, Unwrap(current_guess))
             /\ IF KeepInBounds(keep, current_possibilities)
                THEN /\ current_possibilities' =
                            filtered_possibilities(keep, current_possibilities)
                     /\ prior' = update_prior(dictionary, current_possibilities')
                     /\ aborts = FALSE
                ELSE /\ UNCHANGED << current_possibilities, prior >>
                     /\ aborts = TRUE
             /\ UNCHANGED << dictionary, policy, expected_moves_curve, current_guess,
                             current_guess_entropy, current_guess_match_result,
                             current_guess_match_pattern_pd, current_expected_score >>
    ELSE /\ aborts = FALSE
         /\ current_possibilities' = << >>
         /\ prior' = update_prior(dictionary, current_possibilities')
         /\ UNCHANGED << dictionary, policy, expected_moves_curve, previous_guesses,
                         current_guess, current_guess_entropy,
                         current_guess_match_result,
                         current_guess_match_pattern_pd, current_expected_score >>

\* guess(callback) when the callback answers actual_match; `aborts` tells
\* whether the call panicked
SolverGuess(actual_match, aborts) ==
    IF IsSome(current_guess)
    THEN LET keep == keep_indices(Unwrap(current_guess_match_result), actual_match)
         IN  /\ previous_guesses' = Append(previous_guesses, Unwrap(current_guess))
             /\ IF KeepInBounds(keep, current_possibilities)
                THEN /\ current_possibilities' =
                            filtered_possibilities(keep, current_possibilities)
                     /\ prior' = update_prior(dictionary, current_possibilities')
                     /\ aborts = FALSE
                ELSE /\ UNCHANGED << current_possibilities, prior >>
                     /\ aborts = TRUE
             /\ UNCHANGED << dictionary, policy, expected_moves_curve, current_guess,
                             current_guess_entropy, current_guess_match_result,
                             current_guess_match_pattern_pd, current_expected_score >>
    ELSE /\ aborts = FALSE
         /\ UNCHANGED solver_vars

----------------------------------------------------------------------------
(* WordleSolver::intialise and WordleSolver::reset (src/main.rs:125-180) *)

SolverInitialise(words, config) ==
    /\ dictionary = compute_word_encodings(words)
    /\ policy = config.policy
    /\ expected_moves_curve = config.curve
    /\ previous_guesses = << >>
    /\ current_possibilities = AllIndices(words)
    /\ prior = update_prior(words, AllIndices(words))
    /\ current_guess = None
    /\ current_guess_entropy = LogZero
    /\ current_guess_match_result = None
    /\ current_guess_match_pattern_pd = None
    /\ current_expected_score = INFINITY

\* SolverReset with a slip: the guess history is left as it is
SolverReset_keeps_history ==
    /\ current_guess' = None
    /\ current_guess_entropy' = LogZero
    /\ current_guess_match_result' = None
    /\ current_guess_match_pattern_pd' = None
    /\ current_expected_score' = INFINITY
    /\ current_possibilities' = AllIndices(dictionary)
    /\ prior' = update_prior(dictionary, current_possibilities')
    /\ UNCHANGED << dictionary, policy, expected_moves_curve, previous_guesses >>

SolverReset ==
    /\ current_guess' = None
    /\ current_guess_entropy' = LogZero
    /\ current_guess_match_result' = None
    /\ current_guess_match_pattern_pd' = None
    /\ current_expected_score' = INFINITY
    /\ previous_guesses' = << >>
    /\ current_possibilities' = AllIndices(dictionary)
    /\ prior' = update_prior(dictionary, current_possibilities')
    /\ UNCHANGED << dictionary, policy, expected_moves_curve >>

----------------------------------------------------------------------------
(* A session driven through its public calls, in any order *)

NoEvaluation ==
    /\ mr_self = None
    /\ mr_other = None
    /\ mr_result = None

NoPlay ==
    /\ play_pc = "none"
    /\ initial_possibilities = 0
    /\ reported = None
    /\ announced = None
    /\ exit_code = None
    /\ feedback_line = None

NoBatch ==
    /\ batch_pc = "none"
    /\ n_workers = 0
    /\ max_secrets = 0
    /\ children = << >>
    /\ waited = 0
    /\ batch_exit = None

NoWorker ==
    /\ worker_pc = "none"
    /\ worker_id = 0
    /\ total_workers = 0
    /\ pending = << >>
    /\ secret_idx = 0
    /\ entropies = << >>
    /\ guesses = 0
    /\ shard = << >>

NoCurve ==
    /\ training = << >>
    /\ curve_pc = "none"
    /\ selected = None
    /\ query = None
    /\ interpolated = None

NoEncode ==
    /\ enc_lines = << >>
    /\ enc_pc = "none"

NoHarness == NoBatch /\ NoWorker /\ NoCurve /\ NoEncode

FreshCaller ==
    /\ rounds = << >>
    /\ truthful_for = 0..(Len(dictionary) - 1)
    /\ last_op = "intialise"
    /\ fresh = FALSE
    /\ stale_used = FALSE
    /\ panicked = FALSE
    /\ undone = 0

\* solver.step() as its caller sees it
CallStep ==
    /\ SolverStep
    /\ last_op' = "step"
    /\ fresh' = IsSome(current_guess')
    /\ undone' = 0
    /\ UNCHANGED << rounds, truthful_for, stale_used, panicked >>

\* solver.guess(|_| actual_match) as its caller sees it
CallGuess(actual_match) ==
    /\ \E aborts \in BOOLEAN :
           /\ SolverGuess(actual_match, aborts)
           /\ panicked' = aborts
    /\ IF IsSome(current_guess)
       THEN /\ rounds' = Append(rounds, << Unwrap(current_guess), actual_match >>)
            /\ truthful_for' =
                   { s \in truthful_for :
                       actual_match = match_result(Unwrap(current_guess), At(dictionary, s)) }
            /\ stale_used' = (stale_used \/ ~fresh)
       ELSE UNCHANGED << rounds, truthful_for, stale_used >>
    /\ last_op' = "guess"
    /\ fresh' = FALSE
    /\ undone' = 0

\* solver.reset() as its caller sees it
CallReset ==
    /\ SolverReset
    /\ rounds' = << >>
    /\ truthful_for' = 0..(Len(dictionary) - 1)
    /\ last_op' = "reset"
    /\ fresh' = FALSE
    /\ stale_used' = FALSE
    /\ undone' = Len(previous_guesses)
    /\ UNCHANGED panicked

Init ==
    /\ \E words \in Dictionaries, config \in SessionConfigs :
           SolverInitialise(words, config)
    /\ FreshCaller
    /\ NoEvaluation
    /\ NoPlay
    /\ NoHarness

Step ==
    /\ ~panicked
    /\ CallStep
    /\ UNCHANGED << match_vars, play_vars, harness_vars >>

Guess ==
    /\ ~panicked
    /\ Len(previous_guesses) < MaxGuesses
    /\ IF IsSome(current_guess)
       THEN \E actual_match \in FeedbackInputs(Unwrap(current_guess), dictionary) :
                CallGuess(actual_match)
       ELSE CallGuess(AllNoMatch)
    /\ UNCHANGED << match_vars, play_vars, harness_vars >>

Reset ==
    /\ ~panicked
    /\ CallReset
    /\ UNCHANGED << match_vars, play_vars, harness_vars >>

Next == Step \/ Guess \/ Reset

Spec == Init /\ [][Next]_vars

----------------------------------------------------------------------------
(* interactive_play (src/main.rs:437-563) *)

\* String::trim: leading and trailing white space is dropped
WhiteSpace == { " ", "\n" }

RECURSIVE trim_start(_)
trim_start(line) ==
    IF line # << >> /\ Head(line) \in WhiteSpace THEN trim_start(Tail(line)) ELSE line

RECURSIVE trim_end(_)
trim_end(line) ==
    IF line # << >> /\ line[Len(line)] \in WhiteSpace
    THEN trim_end(SubSeq(line, 1, Len(line) - 1))
    ELSE line

trim(line) == trim_end(trim_start(line))

\* str::to_uppercase on a line of ASCII characters
to_uppercase(line) ==
    [ k \in 1..Len(line) |-> IF line[k] \in Letters THEN UpperOf[line[k]] ELSE line[k] ]

\* str::len counts bytes: every modelled character is ASCII and takes one
\* byte, but for the two-byte letter E with acute accent
TwoByteChar == "E_acute"

RECURSIVE utf8_len(_)
utf8_len(line) ==
    IF line = << >> THEN 0
    ELSE (IF Head(line) = TwoByteChar THEN 2 ELSE 1) + utf8_len(Tail(line))

\* parse_feedback_loop with a slip: an unknown character counts as N
RECURSIVE parse_feedback_loop_lenient(_, _, _)
parse_feedback_loop_lenient(feedback, i, result) ==
    IF i > Len(feedback) THEN [ ok |-> TRUE, value |-> result ]
    ELSE CASE feedback[i] = "M" ->
                  parse_feedback_loop_lenient(feedback, i + 1, [result EXCEPT ![i] = Match])
           [] feedback[i] = "P" ->
                  parse_feedback_loop_lenient(feedback, i + 1, [result EXCEPT ![i] = Partial])
           [] OTHER ->
                  parse_feedback_loop_lenient(feedback, i + 1, [result EXCEPT ![i] = NoMatch])

\* parse_feedback: Ok(result), or Err at the first character that is not M, P, N
RECURSIVE parse_feedback_loop(_, _, _)
parse_feedback_loop(feedback, i, result) ==
    IF i > Len(feedback) THEN [ ok |-> TRUE, value |-> result ]
    ELSE CASE feedback[i] = "M" ->
                  parse_feedback_loop(feedback, i + 1, [result EXCEPT ![i] = Match])
           [] feedback[i] = "P" ->
                  parse_feedback_loop(feedback, i + 1, [result EXCEPT ![i] = Partial])
           [] feedback[i] = "N" ->
                  parse_feedback_loop(feedback, i + 1, [result EXCEPT ![i] = NoMatch])
           [] OTHER -> [ ok |-> FALSE, value |-> "Invalid feedback character" ]

parse_feedback(feedback) ==
    parse_feedback_loop(feedback, 1, [ i \in 1..WordLen |-> NoMatch ])

\* the line a user types for a pattern, in capitals or in small letters
KindLetter(kind, small) ==
    CASE kind = Match   -> IF small THEN "m" ELSE "M"
      [] kind = Partial -> IF small THEN "p" ELSE "P"
      [] kind = NoMatch -> IF small THEN "n" ELSE "N"

LineFor(pattern, small) ==
    [ k \in 1..(WordLen + 1) |->
        IF k <= WordLen THEN KindLetter(pattern[k], small) ELSE "\n" ]

\* the lines read from stdin: an answer for each dictionary word, an answer no
\* dictionary word gives, and lines that are no answer
FeedbackLines(guess, dict) ==
    { LineFor(pattern, small) : pattern \in FeedbackInputs(guess, dict), small \in BOOLEAN }
        \cup { << "M", "P", "N", "\n" >>,
               << "M", "P", "N", "P", "X", "\n" >>,
               << " ", "M", "M", "M", "M", "M", " ", "\n" >>,
               << "M", "M", "M", TwoByteChar, "\n" >>,
               << "\n" >> }

Exit(code, message) ==
    /\ play_pc' = "exited"
    /\ exit_code' = Some(code)
    /\ reported' = message

InitPlay ==
    /\ \E words \in Dictionaries, config \in SessionConfigs :
           SolverInitialise(words, config)
    /\ FreshCaller
    /\ NoEvaluation
    /\ play_pc = "loop"
    /\ initial_possibilities = 0
    /\ reported = None
    /\ announced = None
    /\ exit_code = None
    /\ feedback_line = None
    /\ NoHarness

\* line 480: while solver.current_possibilities.len() > 1
PlayLoop ==
    /\ play_pc = "loop"
    /\ IF Len(current_possibilities) > 1
       THEN /\ play_pc' = "propose"
            /\ initial_possibilities' = Len(current_possibilities)
       ELSE /\ play_pc' = "announce"
            /\ UNCHANGED initial_possibilities
    /\ UNCHANGED << solver_vars, caller_vars, match_vars, reported, announced, exit_code,
                    feedback_line, harness_vars >>

\* lines 484-499: step(), and exit(1) when it proposed nothing
PlayPropose ==
    /\ play_pc = "propose"
    /\ CallStep
    /\ IF IsSome(current_guess')
       THEN /\ play_pc' = "feedback"
            /\ UNCHANGED << reported, exit_code >>
       ELSE Exit(1, Some("failed to find solution: cannot generate next guess"))
    /\ UNCHANGED << match_vars, initial_possibilities, announced, feedback_line,
                    harness_vars >>

\* lines 502-537: one line is read, checked, parsed and given to guess()
PlayFeedback ==
    /\ play_pc = "feedback"
    /\ \E line \in FeedbackLines(Unwrap(current_guess), dictionary) :
           LET feedback == to_uppercase(trim(line))
               parsed   == parse_feedback(feedback)
           IN  /\ feedback_line' = Some(line)
               /\ IF utf8_len(feedback) # WordLen
                  THEN /\ Exit(1, Some("Feedback must be exactly 5 characters (M/P/N)"))
                       /\ UNCHANGED << solver_vars, caller_vars >>
                  ELSE IF ~parsed.ok
                  THEN /\ Exit(1, Some(parsed.value))
                       /\ UNCHANGED << solver_vars, caller_vars >>
                  ELSE /\ CallGuess(parsed.value)
                       /\ IF panicked'
                          THEN Exit(101, Some("panicked: index out of bounds"))
                          ELSE /\ play_pc' = "loop"
                               /\ UNCHANGED << reported, exit_code >>
    /\ UNCHANGED << match_vars, initial_possibilities, announced, harness_vars >>

\* lines 540-543: the only remaining candidate is printed; indexing an empty
\* possibility set panics
PlayAnnounce ==
    /\ play_pc = "announce"
    /\ IF Len(current_possibilities) > 0
       THEN /\ announced' = Some(to_string(At(dictionary, At(current_possibilities, 0))))
            /\ play_pc' = "exited"
            /\ exit_code' = Some(0)
            /\ UNCHANGED << reported, panicked >>
       ELSE /\ Exit(101, Some("panicked: index out of bounds"))
            /\ panicked' = TRUE
            /\ UNCHANGED announced
    /\ UNCHANGED << solver_vars, rounds, truthful_for, last_op, fresh, stale_used,
                    undone, match_vars, initial_possibilities, feedback_line,
                    harness_vars >>

NextPlay == PlayLoop \/ PlayPropose \/ PlayFeedback \/ PlayAnnounce

SpecPlay == InitPlay /\ [][NextPlay]_vars

\* the pattern a line of five letters M, P, N stands for
PatternOf(text) ==
    [ k \in 1..WordLen |->
        CASE text[k] = "M" -> Match
          [] text[k] = "P" -> Partial
          [] text[k] = "N" -> NoMatch ]

WellFormed(text) == Len(text) = WordLen /\ \A k \in 1..Len(text) : text[k] \in { "M", "P", "N" }

\* C18: when the line read for a round is, once trimmed and upper-cased, not
\* exactly 5 characters out of M, P, N, the session ends there with an error
\* message and a non-zero exit status, and neither the possibility set nor the
\* guess history has changed; a well-formed line is applied through guess()
\* as the pattern with M = Match, P = Partial, N = NoMatch at each position.
C18_MalformedFeedbackEndsTheSession ==
    [][ play_pc = "feedback" =>
          LET text == to_uppercase(trim(Unwrap(feedback_line')))
          IN  IF WellFormed(text)
              THEN rounds' = Append(rounds, << Unwrap(current_guess), PatternOf(text) >>)
              ELSE /\ play_pc' = "exited"
                   /\ IsSome(exit_code') /\ Unwrap(exit_code') # 0
                   /\ IsSome(reported')
                   /\ current_possibilities' = current_possibilities
                   /\ previous_guesses' = previous_guesses
                   /\ rounds' = rounds ]_vars

\* a line of 4 characters and 5 bytes, refused in the second round
C18_Witness ==
    /\ play_pc = "exited"
    /\ feedback_line = Some(<< "M", "M", "M", TwoByteChar, "\n" >>)
    /\ exit_code = Some(1)
    /\ Len(rounds) = 1
    /\ Len(current_possibilities) > 1

\* C10 as stated: when the observed pattern matches no remaining candidate and
\* the filter empties the possibility set, the session is aborted with a
\* NoConsistentCandidate error; nothing goes on with the empty set, and the
\* prior is not recomputed over it.
C10_NoConsistentCandidate ==
    current_possibilities = << >> =>
        /\ play_pc = "exited"
        /\ reported = Some("NoConsistentCandidate")
        /\ \A k \in 1..Len(prior) : ~IsNaN(prior[k])

----------------------------------------------------------------------------
(* Properties of a session *)

NumWords == Len(dictionary)

Possibilities == Range(current_possibilities)

RECURSIVE Ascending(_)
Ascending(S) ==
    IF S = {} THEN << >>
    ELSE LET least == CHOOSE x \in S : \A y \in S : x <= y
         IN  << least >> \o Ascending(S \ {least})

\* the dictionary indices whose match result agrees with every round so far
ConsistentIndices ==
    { m \in 0..(NumWords - 1) :
        \A k \in 1..Len(rounds) :
            match_result(rounds[k][1], At(dictionary, m)) = rounds[k][2] }

\* the calls since the last reset were rounds: each guess() that filtered was
\* given a proposal computed by the step() just before it
RoundsOnly == ~stale_used

\* C1: after any sequence of rounds since initialise/reset, the possibility set
\* is exactly the dictionary indices m with match_result(g_k, dictionary[m]) = f_k
\* for every round k, held in ascending order.
C1_PossibilitiesAreTheConsistentIndices ==
    RoundsOnly => current_possibilities = Ascending(ConsistentIndices)

C1_Witness ==
    /\ RoundsOnly
    /\ Len(rounds) = 2
    /\ Len(current_possibilities) = 1
    /\ current_possibilities # << 0 >>

\* C2: guess() leaves a subset of the possibility set it found, step() leaves
\* the possibility set as it is, and only reset() makes it the full index range
\* again.
C2_NeverGrows ==
    [][ /\ last_op' = "guess" => Range(current_possibilities') \subseteq Possibilities
        /\ last_op' = "step" => current_possibilities' = current_possibilities
        /\ ( /\ current_possibilities' # current_possibilities
             /\ current_possibilities' = AllIndices(dictionary) ) => last_op' = "reset"
      ]_vars

C2_Witness ==
    /\ last_op = "guess"
    /\ Len(rounds) = 2
    /\ current_possibilities = << >>

\* C3: while every observed pattern is the match result of the proposed guess
\* against the secret, the secret's index stays in the possibility set; and a
\* possibility set of one member then decodes to the secret word.
C3_SecretStaysPossible ==
    RoundsOnly =>
        \A s \in truthful_for :
            /\ s \in Possibilities
            /\ Len(current_possibilities) = 1 =>
                   to_string(At(dictionary, At(current_possibilities, 0)))
                       = to_string(At(dictionary, s))

C3_Witness ==
    /\ RoundsOnly
    /\ Len(rounds) = 2
    /\ truthful_for # {}
    /\ Len(current_possibilities) = 1

DistinctWords ==
    \A a, b \in 0..(NumWords - 1) : a # b => At(dictionary, a) # At(dictionary, b)

\* a MaximizeEntropy session over distinct words, answered in rounds and
\* truthfully for some secret of the dictionary
TruthfulEntropyPlay ==
    /\ policy = MaximizeEntropy
    /\ DistinctWords
    /\ RoundsOnly
    /\ truthful_for # {}

C5_NeverProposesAGuessedWord ==
    /\ (last_op = "step" /\ IsSome(current_guess))
           => ~Contains(previous_guesses, Unwrap(current_guess))
    /\ previous_guesses = [ k \in 1..Len(rounds) |-> rounds[k][1] ]

C5_Witness ==
    /\ last_op = "step"
    /\ IsSome(current_guess)
    /\ Len(previous_guesses) = 2
    /\ policy = MinimizeScore

\* C15: right after reset() the session is in a state that intialise()
\* produces (every index a candidate, no guess recorded, no proposal, the
\* prior computed over the full set, the derived fields cleared), whatever
\* step() and guess() calls came before; and reset() leaves the dictionary,
\* the policy and the curve as they were.
C15_ResetRestoresInitialState ==
    /\ [](last_op = "reset" =>
            /\ \E words \in Dictionaries, config \in SessionConfigs :
                   SolverInitialise(words, config)
            /\ current_possibilities = [ k \in 1..NumWords |-> k - 1 ]
            /\ previous_guesses = << >>
            /\ current_guess = None
            /\ \A k \in 1..NumWords : prior[k] = Frac(1, NumWords))
    /\ [][last_op' = "reset" =>
            /\ dictionary' = dictionary
            /\ policy' = policy
            /\ expected_moves_curve' = expected_moves_curve]_vars

\* a reset() that threw away two rounds of a MinimizeScore session
C15_Witness ==
    /\ last_op = "reset"
    /\ undone >= 2
    /\ policy = MinimizeScore
    /\ NumWords >= 3

\* C21: guess() called while no guess is proposed changes nothing of the
\* session: every field of the solver is as before (the possibility set, the
\* prior and the guess history among them), the callback is not invoked, so
\* no pattern is observed, and the call does not panic. No guess is proposed
\* before the first step() and right after reset(), and none after a step()
\* that selected no word.
C21_GuessWithoutProposalChangesNothing ==
    /\ [](last_op \in { "intialise", "reset" } => current_guess = None)
    /\ [][(last_op' = "guess" /\ current_guess = None) =>
            /\ UNCHANGED solver_vars
            /\ rounds' = rounds
            /\ truthful_for' = truthful_for
            /\ stale_used' = stale_used
            /\ panicked' = panicked]_vars

\* a guess() after the step() that selected no word, one round into a session
\* with its single candidate left
C21_Witness ==
    /\ last_op = "guess"
    /\ current_guess = None
    /\ Len(rounds) = 1
    /\ Len(current_possibilities) = 1
    /\ NumWords >= 2

\* the dictionary indices of the words not guessed since the last reset
Unguessed ==
    { i \in 0..(NumWords - 1) : ~Contains(previous_guesses, At(dictionary, i)) }

\* the entropy of the pattern distribution of word i over the current
\* possibility set, weighted by the current prior
EntropyOf(i) ==
    compute_entropy(compute_match_pattern_pd(
        match_results_of(At(dictionary, i), dictionary, prior, current_possibilities)))

\* no unguessed word has a greater entropy than word i, and every unguessed
\* word before it has a smaller one
GreatestEntropyFirst(i) ==
    /\ i \in Unguessed
    /\ \A j \in Unguessed : ~LogGreater(EntropyOf(j), EntropyOf(i))
    /\ \A j \in Unguessed : j < i => LogGreater(EntropyOf(i), EntropyOf(j))

\* C19 as stated: under MaximizeEntropy, once step() has run and some word is
\* not yet guessed, the proposal is the unguessed word of greatest entropy,
\* the one of lowest dictionary index among those that tie for it.
C19_ProposesGreatestEntropy ==
    (policy = MaximizeEntropy /\ last_op = "step" /\ Unguessed # {}) =>
        /\ IsSome(current_guess)
        /\ \E i \in Unguessed :
               /\ GreatestEntropyFirst(i)
               /\ Unwrap(current_guess) = At(dictionary, i)
               /\ current_guess_entropy = EntropyOf(i)

\* C17 as stated: step() on an empty possibility set, where every pattern
\* distribution is taken over no candidate and its total weight is 0, ends in
\* an EmptyOrZeroWeightCandidateSet error; it does not return normally.
C17_EmptyCandidateSetIsAnError ==
    (last_op = "step" /\ current_possibilities = << >>) => panicked

\* C9 as stated: after step() and guess() with pattern f, a second guess() with
\* the same f and no step() in between completes and leaves the possibility set
\* as it is.
C9_Idempotent ==
    [][ ( /\ last_op = "guess"
          /\ last_op' = "guess"
          /\ ~stale_used
          /\ Len(rounds) >= 1
          /\ Len(rounds') = Len(rounds) + 1
          /\ rounds'[Len(rounds')] = rounds[Len(rounds)] )
        => ( /\ ~panicked'
             /\ current_possibilities' = current_possibilities )
      ]_vars

----------------------------------------------------------------------------
(* match_result evaluated on one pair of encoded words *)

\* number of leading letters of the alphabet the compared words are spelled with
MatchLetters == 2

SPEED == << "S", "P", "E", "E", "D" >>
ERASE == << "E", "R", "A", "S", "E" >>
AABCC == << "A", "A", "B", "C", "C" >>
AEXXA == << "A", "E", "X", "X", "A" >>

\* every 5-letter word over the first MatchLetters letters, and the words the
\* specification's examples name
MatchWords ==
    [ 1..WordLen -> { UpperCase[k] : k \in 1..MatchLetters } ]
        \cup { SPEED, ERASE, AABCC, AEXXA }

InitMatch ==
    /\ SolverInitialise(<< SPEED >>, [ policy |-> MaximizeEntropy, curve |-> << >> ])
    /\ FreshCaller
    /\ NoPlay
    /\ NoHarness
    /\ \E g \in MatchWords, s \in MatchWords :
           /\ mr_self = Some(from_string(g))
           /\ mr_other = Some(from_string(s))
    /\ mr_result = None

Evaluate ==
    /\ mr_result = None
    /\ mr_result' = Some(match_result(Unwrap(mr_self), Unwrap(mr_other)))
    /\ UNCHANGED << mr_self, mr_other, solver_vars, caller_vars, play_vars, harness_vars >>

NextMatch == Evaluate

SpecMatch == InitMatch /\ [][NextMatch]_vars

\* number of positions of a 5-sequence that satisfy a test
CountPositions(Test(_)) == Cardinality({ i \in 1..WordLen : Test(i) })

Min(a, b) == IF a <= b THEN a ELSE b

Evaluated == IsSome(mr_result)

\* C6: position i of match_result(g, s) is Match exactly when g and s hold the
\* same letter at i; so the Match outcomes count the agreeing positions, and
\* the result is all-Match exactly when g = s.
C6_ExactIffSameLetter ==
    Evaluated =>
        LET g == Unwrap(mr_self)
            s == Unwrap(mr_other)
            r == Unwrap(mr_result)
            IsExact(i) == r[i] = Match
            Agrees(i)  == g.positions[i] = s.positions[i]
        IN  /\ \A i \in 1..WordLen : IsExact(i) <=> Agrees(i)
            /\ CountPositions(IsExact) = CountPositions(Agrees)
            /\ (\A i \in 1..WordLen : IsExact(i)) <=> (g = s)

C6_Witness ==
    /\ Evaluated
    /\ Unwrap(mr_self) # Unwrap(mr_other)
    /\ \E i, j \in 1..WordLen :
           /\ Unwrap(mr_result)[i] = Match
           /\ Unwrap(mr_result)[j] = Partial

\* C7: for every letter c, the positions of g holding c that are marked Match
\* or Partial number min(count of c in g, count of c in s); the Partial marks
\* are on the leftmost occurrences of c in g that are not Match, and the
\* occurrences after them are NoMatch.
C7_LetterBudget ==
    Evaluated =>
        LET g == Unwrap(mr_self)
            s == Unwrap(mr_other)
            r == Unwrap(mr_result)
        IN  \A k \in 1..AlphabetSize :
                LET c == UpperCase[k]
                    InG(i)    == g.positions[i] = c
                    InS(i)    == s.positions[i] = c
                    Marked(i) == InG(i) /\ r[i] \in { Match, Partial }
                IN  /\ CountPositions(Marked) = Min(CountPositions(InG), CountPositions(InS))
                    /\ \A i, j \in 1..WordLen :
                           ( /\ i < j
                             /\ InG(i) /\ InG(j)
                             /\ r[i] # Match
                             /\ r[j] = Partial ) => r[i] = Partial

C7_Witness ==
    /\ Evaluated
    /\ \E i, j \in 1..WordLen :
           /\ i < j
           /\ Unwrap(mr_self).positions[i] = Unwrap(mr_self).positions[j]
           /\ Unwrap(mr_result)[i] = Partial
           /\ Unwrap(mr_result)[j] = NoMatch
    /\ \E i \in 1..WordLen : Unwrap(mr_result)[i] = Match

SpeedAgainstErase ==
    /\ Evaluated
    /\ mr_self = Some(from_string(SPEED))
    /\ mr_other = Some(from_string(ERASE))

\* C8 as stated: guessing SPEED against the secret ERASE marks the S
\* (position 1) NoMatch and the P (position 2) NoMatch.
C8_Original ==
    SpeedAgainstErase =>
        /\ Unwrap(mr_result)[1] = NoMatch
        /\ Unwrap(mr_result)[2] = NoMatch

\* C8 amended: guessing SPEED against the secret ERASE marks the S (position 1)
\* Partial, since ERASE holds an S elsewhere, and the P (position 2) NoMatch.
C8_SpeedErase ==
    SpeedAgainstErase =>
        /\ Unwrap(mr_result)[1] = Partial
        /\ Unwrap(mr_result)[2] = NoMatch

C8_Witness == SpeedAgainstErase

----------------------------------------------------------------------------
(* spawn_workers and the worker processes of a batch (src/main.rs:408-435,  *)
(* 592-640).  A child is kept by the loop of line 615 that it runs and by   *)
(* the way it ends; what it does for one secret is the subject of           *)
(* SpecWorker below.                                                        *)

\* most worker processes the machine allows (num_cpus::get())
MaxWorkers == 2

\* most secrets a batch goes through
MaxSecrets == 3

\* 1_500.min(solver.dictionary.len()), line 614
SecretCap == 1500

\* assigned_secrets with a slip: the stride is one too long
assigned_secrets_long_stride(id, total, max) ==
    LET Mine(i) == i % (total + 1) = id
    IN  SelectSeq([ k \in 1..max |-> k - 1 ], Mine)

\* line 615: (0..max_secrets).filter(|i| i % total_workers == worker_id), in
\* the order the iterator yields
assigned_secrets(id, total, max) ==
    LET Mine(i) == i % total = id
    IN  SelectSeq([ k \in 1..max |-> k - 1 ], Mine)

\* the process that lines 420-430 start with the arguments id and n
SpawnedWorker(id, n, max) ==
    [ worker_id     |-> id,
      total_workers |-> n,
      pending       |-> assigned_secrets(id, n, max),
      simulated     |-> << >>,
      status        |-> "running" ]

InitBatch ==
    /\ SolverInitialise(<< << "S", "P", "E", "E", "D" >> >>,
                        [ policy |-> MaximizeEntropy, curve |-> << >> ])
    /\ FreshCaller
    /\ NoEvaluation
    /\ NoPlay
    /\ NoWorker
    /\ NoCurve
    /\ NoEncode
    /\ batch_pc = "spawn"
    /\ \E requested \in 0..MaxWorkers, logical \in 1..MaxWorkers :
           n_workers = IF requested = 0 THEN logical
                       ELSE IF requested < logical THEN requested ELSE logical
    /\ \E len \in 0..MaxSecrets :
           max_secrets = IF SecretCap < len THEN SecretCap ELSE len
    /\ children = << >>
    /\ waited = 0
    /\ batch_exit = None

\* lines 419-431: one turn of the spawn loop; a spawn that fails panics
Spawn ==
    /\ batch_pc = "spawn"
    /\ Len(children) < n_workers
    /\ \E spawned \in BOOLEAN :
           IF spawned
           THEN /\ children' = Append(children,
                                   SpawnedWorker(Len(children), n_workers, max_secrets))
                /\ batch_pc' = IF Len(children') = n_workers THEN "wait" ELSE "spawn"
                /\ UNCHANGED batch_exit
           ELSE /\ batch_pc' = "panicked"
                /\ batch_exit' = Some(101)
                /\ UNCHANGED children
    /\ UNCHANGED << n_workers, max_secrets, waited >>
    /\ UNCHANGED << solver_vars, caller_vars, match_vars, play_vars,
                    worker_vars, curve_vars, encode_vars >>

\* lines 432-434: c.wait().unwrap() returns once the child has ended, whatever
\* its exit status; after the last child spawn_workers and main return
Wait ==
    /\ batch_pc = "wait"
    /\ waited < Len(children)
    /\ children[waited + 1].status # "running"
    /\ waited' = waited + 1
    /\ IF waited' = Len(children)
       THEN /\ batch_pc' = "done"
            /\ batch_exit' = Some(0)
       ELSE UNCHANGED << batch_pc, batch_exit >>
    /\ UNCHANGED << n_workers, max_secrets, children >>
    /\ UNCHANGED << solver_vars, caller_vars, match_vars, play_vars,
                    worker_vars, curve_vars, encode_vars >>

\* lines 615-639 in child w: the next secret of its loop is simulated and its
\* rows are flushed
ChildSecret(w) ==
    /\ children[w].status = "running"
    /\ children[w].pending # << >>
    /\ children' = [ children EXCEPT
                       ![w].simulated = Append(@, Head(children[w].pending)),
                       ![w].pending = Tail(@) ]
    /\ UNCHANGED << batch_pc, n_workers, max_secrets, waited, batch_exit >>
    /\ UNCHANGED << solver_vars, caller_vars, match_vars, play_vars,
                    worker_vars, curve_vars, encode_vars >>

\* child w panics: the output directory or the shard cannot be opened (593,
\* 601), the word list cannot be read (612), step() proposed nothing (626), or
\* a row cannot be written (604, 636, 638)
ChildFail(w) ==
    /\ children[w].status = "running"
    /\ children' = [ children EXCEPT ![w].status = "failed" ]
    /\ UNCHANGED << batch_pc, n_workers, max_secrets, waited, batch_exit >>
    /\ UNCHANGED << solver_vars, caller_vars, match_vars, play_vars,
                    worker_vars, curve_vars, encode_vars >>

\* child w leaves the loop of line 615 and returns
ChildExit(w) ==
    /\ children[w].status = "running"
    /\ children[w].pending = << >>
    /\ children' = [ children EXCEPT ![w].status = "exited" ]
    /\ UNCHANGED << batch_pc, n_workers, max_secrets, waited, batch_exit >>
    /\ UNCHANGED << solver_vars, caller_vars, match_vars, play_vars,
                    worker_vars, curve_vars, encode_vars >>

NextBatch ==
    \/ Spawn
    \/ Wait
    \/ \E w \in 1..Len(children) : ChildSecret(w)
    \/ \E w \in 1..Len(children) : ChildFail(w)
    \/ \E w \in 1..Len(children) : ChildExit(w)

SpecBatch == InitBatch /\ [][NextBatch]_vars

\* the secret indices worker process w of the batch has gone through
Simulated(w) == Range(children[w].simulated)

\* C11: the secrets gone through by two different workers of a batch never
\* overlap, worker id takes index i exactly when i mod n = id (what it has
\* simulated and what its loop still holds are together the indices of its
\* residue class below m), and once all n workers have run to their end every
\* index of [0, m) has been simulated by exactly one of them.
C11_StridePartition ==
    /\ \A w1 \in 1..Len(children), w2 \in 1..Len(children) :
           w1 # w2 => Simulated(w1) \cap Simulated(w2) = {}
    /\ \A w \in 1..Len(children) :
           /\ Cardinality(Simulated(w)) = Len(children[w].simulated)
           /\ Simulated(w) \cap Range(children[w].pending) = {}
           /\ Simulated(w) \cup Range(children[w].pending) =
                  { i \in 0..(max_secrets - 1) : i % n_workers = w - 1 }
    /\ ( /\ Len(children) = n_workers
         /\ \A w \in 1..Len(children) : children[w].status = "exited" )
       => \A i \in 0..(max_secrets - 1) :
              Cardinality({ w \in 1..Len(children) : i \in Simulated(w) }) = 1

C11_Witness ==
    /\ n_workers = 2
    /\ max_secrets = 3
    /\ Len(children) = 2
    /\ \A w \in 1..2 : children[w].status = "exited"
    /\ Simulated(1) = {0, 2}
    /\ Simulated(2) = {1}

\* C12 as stated: when a worker process of the batch fails, because it cannot
\* be spawned or because it ends unsuccessfully, spawn_workers does not end as
\* a successful run.
C12_WorkerFailureFailsTheBatch ==
    /\ batch_pc = "panicked" => batch_exit # Some(0)
    /\ (\E w \in 1..Len(children) : children[w].status = "failed")
           => batch_exit # Some(0)

----------------------------------------------------------------------------
(* The expected-moves curve: build_moves_histogram, the choice of the       *)
(* policy at the start of interactive_play, and interp_expected_moves       *)
(* (src/main.rs:348-406, 438-463).  A line of a shard is kept as the fields *)
(* that split(',') yields, a field as its characters.                       *)

Digits == << "0", "1", "2", "3", "4", "5", "6", "7", "8", "9" >>

DigitOf == [ c \in Range(Digits) |-> (CHOOSE k \in 1..Len(Digits) : Digits[k] = c) - 1 ]

\* str::parse::<f64> on an unsigned decimal numeral: digits with at most one
\* point among them parse, everything else is an Err (None)
RECURSIVE parse_f64_from(_, _, _, _, _, _)
parse_f64_from(field, i, num, den, seen_point, seen_digit) ==
    IF i > Len(field)
    THEN (IF seen_digit THEN Some(Frac(num, den)) ELSE None)
    ELSE IF field[i] \in Range(Digits)
    THEN parse_f64_from(field, i + 1, num * 10 + DigitOf[field[i]],
                        IF seen_point THEN den * 10 ELSE den, seen_point, TRUE)
    ELSE IF field[i] = "." /\ ~seen_point
    THEN parse_f64_from(field, i + 1, num, den, TRUE, seen_digit)
    ELSE None

parse_f64(field) == parse_f64_from(field, 1, 0, 1, FALSE, FALSE)

\* the bucket_width interactive_play passes (line 448)
BucketWidth == Frac(1, 5)

\* the f64 that sum_moves holds for a bucket index, 0.0 before its first row
SumAt(sum_moves, bin) == IF bin \in DOMAIN sum_moves THEN sum_moves[bin] ELSE Zero

\* lines 357-365 for one line: the sums after it, or a panic when a field is
\* missing (unwrap on None) or is no number (unwrap on Err)
histogram_line(line, bucket_width, acc) ==
    IF Len(line) < 2 THEN [ acc EXCEPT !.outcome = "panic" ]
    ELSE LET entropy == parse_f64(line[2])
         IN  IF ~IsSome(entropy) THEN [ acc EXCEPT !.outcome = "panic" ]
             ELSE IF Len(line) < 3 THEN [ acc EXCEPT !.outcome = "panic" ]
             ELSE LET moves == parse_f64(line[3])
                  IN  IF ~IsSome(moves) THEN [ acc EXCEPT !.outcome = "panic" ]
                      ELSE LET e   == Unwrap(entropy)
                               bin == (e.num * bucket_width.den) \div (e.den * bucket_width.num)
                           IN  [ acc EXCEPT
                                   !.sum_moves = [ b \in DOMAIN acc.sum_moves \cup {bin} |->
                                                    IF b = bin
                                                    THEN FAdd(SumAt(acc.sum_moves, bin), Unwrap(moves))
                                                    ELSE acc.sum_moves[b] ],
                                   !.counts = Put(@, bin, Get(acc.counts, bin) + 1) ]

RECURSIVE histogram_lines(_, _, _, _)
histogram_lines(lines, k, bucket_width, acc) ==
    IF k > Len(lines) \/ acc.outcome # "ok" THEN acc
    ELSE histogram_lines(lines, k + 1, bucket_width,
                         histogram_line(lines[k], bucket_width, acc))

\* lines 352-367 for one path: a file that cannot be opened and a directory,
\* whose lines cannot be read, end the function with an Err
histogram_shard(path, bucket_width, acc) ==
    CASE path.kind = "unreadable" -> [ acc EXCEPT !.outcome = "err" ]
      [] path.kind = "directory"  -> [ acc EXCEPT !.outcome = "err" ]
      [] path.kind = "file"       -> histogram_lines(path.lines, 1, bucket_width, acc)

RECURSIVE histogram_shards(_, _, _, _)
histogram_shards(shards, k, bucket_width, acc) ==
    IF k > Len(shards) \/ acc.outcome # "ok" THEN acc
    ELSE histogram_shards(shards, k + 1, bucket_width,
                          histogram_shard(shards[k], bucket_width, acc))

\* lines 369-380: one bucket per index, sorted by ascending centre
RECURSIVE sorted_buckets(_, _, _)
sorted_buckets(acc, bins, bucket_width) ==
    IF bins = {} THEN << >>
    ELSE LET bin == CHOOSE x \in bins : \A y \in bins : x <= y
         IN  << [ centre    |-> FMul(Frac(2 * bin + 1, 2), bucket_width),
                  avg_moves |-> FDiv(acc.sum_moves[bin], Frac(acc.counts[bin], 1)) ] >>
                 \o sorted_buckets(acc, bins \ {bin}, bucket_width)

\* build_moves_histogram over the paths the glob yields
build_moves_histogram(shards, bucket_width) ==
    LET acc == histogram_shards(shards, 1, bucket_width,
                   [ outcome |-> "ok", sum_moves |-> << >>, counts |-> << >> ])
    IN  IF acc.outcome = "ok"
        THEN [ outcome |-> "ok",
               buckets |-> sorted_buckets(acc, DOMAIN acc.counts, bucket_width) ]
        ELSE [ outcome |-> acc.outcome, buckets |-> << >> ]

\* lines 441-463: the policy and the curve the session is created with
select_policy(shards) ==
    IF \E k \in 1..Len(shards) : shards[k].kind # "directory"
    THEN LET built == build_moves_histogram(shards, BucketWidth)
         IN  IF built.outcome = "panic"
             THEN [ panicked |-> TRUE, policy |-> MaximizeEntropy, curve |-> << >> ]
             ELSE IF built.outcome = "ok" /\ built.buckets # << >>
             THEN [ panicked |-> FALSE, policy |-> MinimizeScore, curve |-> built.buckets ]
             ELSE [ panicked |-> FALSE, policy |-> MaximizeEntropy, curve |-> << >> ]
    ELSE [ panicked |-> FALSE, policy |-> MaximizeEntropy, curve |-> << >> ]

\* most paths the glob matches
MaxShards == 2

\* a row as run_generic_worker writes it (line 636), for secret 0
TrainingRow(entropy, moves) == << << "0" >>, entropy, moves >>

ShardFile(lines) == [ kind |-> "file", lines |-> lines ]

\* what a path matched by the glob can be
Shards ==
    { [ kind |-> "directory", lines |-> << >> ],
      [ kind |-> "unreadable", lines |-> << >> ],
      ShardFile(<< >>),
      ShardFile(<< TrainingRow(<< "0" >>, << "1" >>) >>),
      ShardFile(<< TrainingRow(<< "1" >>, << "2" >>), TrainingRow(<< "0" >>, << "1" >>) >>),
      ShardFile(<< TrainingRow(<< "2" >>, << "3" >>) >>),
      ShardFile(<< TrainingRow(<< "1", ".", "5" >>, << "2" >>),
                   TrainingRow(<< "1", ".", "5" >>, << "3" >>) >>),
      ShardFile(<< TrainingRow(<< "x" >>, << "1" >>) >>),
      ShardFile(<< TrainingRow(<< "1" >>, << >>) >>),
      ShardFile(<< << << "0" >>, << "1" >> >> >>),
      ShardFile(<< << << >> >> >>) }

TrainingInputs == SeqsUpTo(Shards, MaxShards)

\* the values interp_expected_moves is asked for
QueryValues ==
    { Frac(0, 1), Frac(1, 10), Frac(3, 5), Frac(11, 10), Frac(13, 10),
      Frac(3, 2), Frac(9, 5), Frac(21, 10), Frac(3, 1), INFINITY }

InitCurve ==
    /\ SolverInitialise(<< << "S", "P", "E", "E", "D" >> >>,
                        [ policy |-> MaximizeEntropy, curve |-> << >> ])
    /\ FreshCaller
    /\ NoEvaluation
    /\ NoPlay
    /\ NoBatch
    /\ NoWorker
    /\ NoEncode
    /\ training \in TrainingInputs
    /\ curve_pc = "start"
    /\ selected = None
    /\ query = None
    /\ interpolated = None

\* lines 438-463
LoadCurve ==
    /\ curve_pc = "start"
    /\ LET choice == select_policy(training)
       IN  /\ selected' = Some(choice)
           /\ curve_pc' = IF choice.panicked THEN "panicked" ELSE "loaded"
    /\ UNCHANGED << training, query, interpolated >>
    /\ UNCHANGED << solver_vars, caller_vars, match_vars, play_vars,
                    batch_vars, worker_vars, encode_vars >>

\* one call of interp_expected_moves on the curve of the session
Interpolate ==
    /\ curve_pc = "loaded"
    /\ Unwrap(selected).policy = MinimizeScore
    /\ \E x \in QueryValues :
           /\ query' = Some(x)
           /\ interpolated' =
                  IF interp_unreachable(Unwrap(selected).curve, x)
                  THEN Some([ panicked |-> TRUE, value |-> NaN ])
                  ELSE Some([ panicked |-> FALSE,
                              value    |-> interp_expected_moves(Unwrap(selected).curve, x) ])
    /\ UNCHANGED << training, curve_pc, selected >>
    /\ UNCHANGED << solver_vars, caller_vars, match_vars, play_vars,
                    batch_vars, worker_vars, encode_vars >>

NextCurve == LoadCurve \/ Interpolate

SpecCurve == InitCurve /\ [][NextCurve]_vars

\* C13 as stated: whatever the training data, absent or unusable, the run is
\* not aborted; the session gets the policy MaximizeEntropy unless a
\* non-empty curve was built, and MinimizeScore only comes with a non-empty
\* curve.
C13_FallsBackToEntropyPolicy ==
    /\ curve_pc # "panicked"
    /\ curve_pc = "loaded" =>
           /\ Unwrap(selected).policy \in { MaximizeEntropy, MinimizeScore }
           /\ Unwrap(selected).policy = MinimizeScore => Unwrap(selected).curve # << >>

Curve == Unwrap(selected).curve

\* the straight line through two buckets, at x
OnTheLine(l, r, x) ==
    FAdd(l.avg_moves,
         FDiv(FMul(FSub(x, l.centre), FSub(r.avg_moves, l.avg_moves)),
              FSub(r.centre, l.centre)))

Between(v, a, b) ==
    \/ FLessEq(a, v) /\ FLessEq(v, b)
    \/ FLessEq(b, v) /\ FLessEq(v, a)

\* C14: a curve of two or more buckets has ascending, distinct centres; a query
\* at or below the first centre returns the first bucket's value, a query at
\* or above the last centre the last bucket's value, a query between two
\* adjacent centres the value of the straight line through the two buckets,
\* which lies between their two values; the call never runs into
\* unreachable!().
C14_FlatOutsideLinearInside ==
    (IsSome(interpolated) /\ Len(Curve) >= 2) =>
        LET x == Unwrap(query)
            r == Unwrap(interpolated)
        IN  /\ \A k \in 1..(Len(Curve) - 1) : FLess(Curve[k].centre, Curve[k + 1].centre)
            /\ ~r.panicked
            /\ FLessEq(x, Curve[1].centre) => r.value = Curve[1].avg_moves
            /\ FLessEq(Curve[Len(Curve)].centre, x) => r.value = Curve[Len(Curve)].avg_moves
            /\ \A k \in 1..(Len(Curve) - 1) :
                   (FLessEq(Curve[k].centre, x) /\ FLessEq(x, Curve[k + 1].centre)) =>
                       /\ r.value = OnTheLine(Curve[k], Curve[k + 1], x)
                       /\ Between(r.value, Curve[k].avg_moves, Curve[k + 1].avg_moves)

\* a curve of three buckets asked strictly inside its second segment
C14_Witness ==
    /\ IsSome(interpolated)
    /\ Len(Curve) = 3
    /\ FLess(Curve[2].centre, Unwrap(query))
    /\ FLess(Unwrap(query), Curve[3].centre)
    /\ FLess(Curve[2].avg_moves, Unwrap(interpolated).value)
    /\ FLess(Unwrap(interpolated).value, Curve[3].avg_moves)

----------------------------------------------------------------------------
(* Loading a word list: compute_word_encodings applies from_string to every *)
(* line that open_dictionary returned (src/main.rs:12-19, 59-73, 280-290).  *)

\* most lines of the file
MaxFileLines == 2

\* the lines a file can hold: words of five letters, shorter and longer
\* ones, an empty line, and a line with a character that is no letter
FileLines ==
    { << "S", "P", "E", "E", "D" >>,
      << "s", "t", "e", "e", "d" >>,
      << "A", "B", "B", "E", "Y" >>,
      << "a", "b" >>,
      << "Z", "O", "O" >>,
      << >>,
      << "S", "P", "E", "E", "D", "Y" >>,
      << "S", "P", "E", "E", "1" >> }

InitEncode ==
    /\ SolverInitialise(<< >>, [ policy |-> MaximizeEntropy, curve |-> << >> ])
    /\ FreshCaller
    /\ NoEvaluation
    /\ NoPlay
    /\ NoBatch
    /\ NoWorker
    /\ NoCurve
    /\ enc_lines \in SeqsUpTo(FileLines, MaxFileLines)
    /\ enc_pc = "start"

\* line 147: the encodings of the lines become the dictionary, unless
\* from_string panics on one of them
EncodeWords ==
    /\ enc_pc = "start"
    /\ IF \E k \in 1..Len(enc_lines) : from_string_panics(enc_lines[k])
       THEN /\ enc_pc' = "panicked"
            /\ UNCHANGED dictionary
       ELSE /\ enc_pc' = "loaded"
            /\ dictionary' = compute_word_encodings(enc_lines)
    /\ UNCHANGED << policy, expected_moves_curve, previous_guesses, prior,
                    current_possibilities, current_guess, current_guess_entropy,
                    current_guess_match_result, current_guess_match_pattern_pd,
                    current_expected_score >>
    /\ UNCHANGED << enc_lines, caller_vars, match_vars, play_vars,
                    batch_vars, worker_vars, curve_vars >>

NextEncode == EncodeWords

SpecEncode == InitEncode /\ [][NextEncode]_vars

\* the number of positions of an encoding that hold the letter c
Occurrences(enc, c) == Cardinality({ i \in 1..WordLen : enc.positions[i] = c })

FiveLetters(line) == Len(line) = WordLen /\ \A i \in 1..Len(line) : line[i] \in Letters

\* C16 as stated: every encoding held in the dictionary counts, for every
\* letter, exactly the occurrences of that letter in its positions; and a
\* line that is not exactly 5 letters is rejected with InvalidWordLength, so
\* that no encoding is made from it.
C16_FrequenciesCountPositions ==
    /\ \A k \in 1..Len(dictionary) : \A j \in 1..AlphabetSize :
           Get(dictionary[k].frequencies, j - 1) = Occurrences(dictionary[k], UpperCase[j])
    /\ ( /\ enc_pc \notin { "none", "start" }
         /\ \E k \in 1..Len(enc_lines) : ~FiveLetters(enc_lines[k]) )
       => enc_pc = "InvalidWordLength"

----------------------------------------------------------------------------
(* run_generic_worker: one worker process simulating the secrets of its     *)
(* share (src/main.rs:592-640)                                              *)

\* the most guesses spent on one secret (line 630)
GuessCap == 6

\* (n as f64).log2() for a length n >= 1
log2(n) == [ arg |-> Frac(n, 1), root |-> 1 ]

\* lines 592-614, for the worker that spawn_workers starts as number id of total
InitWorker ==
    /\ \E words \in Dictionaries :
           /\ SolverInitialise(words, [ policy |-> MaximizeEntropy, curve |-> << >> ])
           /\ \E total \in 1..MaxWorkers : \E id \in 0..(total - 1) :
                  /\ worker_id = id
                  /\ total_workers = total
                  /\ pending = assigned_secrets(id, total,
                                   IF SecretCap < Len(words) THEN SecretCap ELSE Len(words))
    /\ FreshCaller
    /\ NoEvaluation
    /\ NoPlay
    /\ NoBatch
    /\ NoCurve
    /\ NoEncode
    /\ worker_pc = "next"
    /\ secret_idx = 0
    /\ entropies = << >>
    /\ guesses = 0
    /\ shard = << >>

\* lines 615-619: the next secret of the share, or the end of the loop
WorkerSecret ==
    /\ worker_pc = "next"
    /\ IF pending = << >>
       THEN /\ worker_pc' = "done"
            /\ UNCHANGED << pending, secret_idx, entropies, guesses >>
            /\ UNCHANGED << solver_vars, caller_vars >>
       ELSE /\ secret_idx' = Head(pending)
            /\ pending' = Tail(pending)
            /\ CallReset
            /\ entropies' = << >>
            /\ guesses' = 0
            /\ worker_pc' = "step"
    /\ UNCHANGED << worker_id, total_workers, shard >>
    /\ UNCHANGED << match_vars, play_vars, batch_vars, curve_vars, encode_vars >>

\* lines 622-626: the entropy left is noted, step() is called and counted, and
\* its proposal is unwrapped, which panics when there is none
WorkerStep ==
    /\ worker_pc = "step"
    /\ entropies' = Append(entropies, log2(Len(current_possibilities)))
    /\ CallStep
    /\ guesses' = guesses + 1
    /\ worker_pc' = IF IsSome(current_guess') THEN "guess" ELSE "panicked"
    /\ UNCHANGED << worker_id, total_workers, pending, secret_idx, shard >>
    /\ UNCHANGED << match_vars, play_vars, batch_vars, curve_vars, encode_vars >>

\* lines 627-632: the proposal is answered with its pattern against the
\* secret, and the loop is left on a single candidate or on the sixth guess
WorkerGuess ==
    /\ worker_pc = "guess"
    /\ CallGuess(match_result(Unwrap(current_guess), At(dictionary, secret_idx)))
    /\ worker_pc' = IF panicked' THEN "panicked"
                    ELSE IF Len(current_possibilities') = 1 \/ guesses = GuessCap
                    THEN "write"
                    ELSE "step"
    /\ UNCHANGED << worker_id, total_workers, pending, secret_idx, entropies,
                    guesses, shard >>
    /\ UNCHANGED << match_vars, play_vars, batch_vars, curve_vars, encode_vars >>

\* lines 634-638: one row per noted entropy, then the flush
WorkerWrite ==
    /\ worker_pc = "write"
    /\ shard' = shard \o
                    [ step \in 1..Len(entropies) |->
                        [ secret_idx      |-> secret_idx,
                          entropy         |-> entropies[step],
                          moves_remaining |-> guesses - (step - 1) ] ]
    /\ worker_pc' = "next"
    /\ UNCHANGED << worker_id, total_workers, pending, secret_idx, entropies, guesses >>
    /\ UNCHANGED << solver_vars, caller_vars >>
    /\ UNCHANGED << match_vars, play_vars, batch_vars, curve_vars, encode_vars >>

NextWorker == WorkerSecret \/ WorkerStep \/ WorkerGuess \/ WorkerWrite

SpecWorker == InitWorker /\ [][NextWorker]_vars

\* the rows of the shard for secret s, in the order written
RowsOf(s) ==
    LET ForSecret(row) == row.secret_idx = s
    IN  SelectSeq(shard, ForSecret)

\* the secrets of the worker's share whose simulation is over
Finished ==
    { s \in 0..(NumWords - 1) :
        /\ s % total_workers = worker_id
        /\ ~Contains(pending, s)
        /\ (s # secret_idx \/ worker_pc \in { "next", "done" }) }

\* C20 as stated: the simulation of every secret of the share comes to its
\* end, it never goes past 6 guesses and goes on only while more than one
\* candidate is left and fewer than 6 guesses were made, and once it is over
\* the shard holds one row per guess made for that secret, with
\* moves_remaining running from the number of guesses down to 1.
C20_SimulationEndsWithItsRows ==
    /\ worker_pc # "panicked"
    /\ guesses <= GuessCap
    /\ Len(previous_guesses) = (IF worker_pc = "guess" THEN guesses - 1 ELSE guesses)
    /\ (worker_pc = "step" /\ guesses > 0) =>
           (Len(current_possibilities) # 1 /\ guesses < GuessCap)
    /\ worker_pc = "write" =>
           /\ Len(current_possibilities) = 1 \/ guesses = GuessCap
           /\ Len(entropies) = guesses
    /\ \A s \in Finished :
           /\ Len(RowsOf(s)) \in 1..GuessCap
           /\ \A k \in 1..Len(RowsOf(s)) :
                  RowsOf(s)[k].moves_remaining = Len(RowsOf(s)) - k + 1

====
